---- MODULE Spec2Model ----
(***************************************************************************)
(* cactus/file.py: class File.  One build artifact, its payload and        *)
(* checksum, the change decision against the remote object's headers and   *)
(* the upload under the retry envelope.                                    *)
(*                                                                         *)
(* Byte strings are records (what the bytes are, how many there are);      *)
(* header values are sequences of tokens, the double quote being one, so   *)
(* that strip('"') has something to strip; header names are strings, with  *)
(* lower() tabulated over the names that occur.                            *)
(***************************************************************************)
EXTENDS Integers, Sequences, FiniteSets, TLC

VARIABLES
  path,         \* self.path, as [base, suffix] (what os.path.splitext yields)
  disk,         \* the file under .build: [bytes, len]
  remote,       \* the store's headers for the key, as sent on the wire
  hookAdds,     \* whether the installed preDeployFile plugin adds a header
  memoData,     \* what File.data has memoized: <<>>, or <<the file as read>>
  memoPayload,  \* self._payload: <<>> while there is no such attribute
  headers,      \* self.headers
  lastUpload,   \* self.lastUpload
  pc,           \* where the call of upload stands
  mtries,       \* retry: attempts left
  mdelay,       \* retry: next delay
  sleeps,       \* retry: the delays slept during this call, in order
  calls,        \* per call of upload: how often each collaborator was called
  raises,       \* per call of upload: exceptions raised, per stage and class
  fetched,      \* the response of the last getURLHeaders of this call
  error,        \* the exception that left upload: [kind, at], or NoError
  result,       \* the value upload returned, or NoResult
  sent,         \* the arguments of each set_contents_from_string of this call
  progressLog,  \* the byte counts progressCallback logged during this call
  diskReads,    \* how often the file was opened (File lifetime)
  compressions, \* how often compressString ran (File lifetime)
  syncs,        \* calls of upload started on this File
  twin          \* a second File of the deploy, while the other one executes,
                \* and the store's entries key by key: [me, file, store,
                \* remote0]; me = 0 where there is one File only

vars == <<path, disk, remote, hookAdds, memoData, memoPayload, headers,
          lastUpload, pc, mtries, mdelay, sleeps, calls, raises, fetched,
          error, result, sent, progressLog, diskReads, compressions, syncs,
          twin>>

---------------------------------------------------------------------------
\* Bounds of the model.

\* calls of upload on one File object
MaxSyncs == 2

---------------------------------------------------------------------------
\* Class constants and decorator arguments.

\* one day, in seconds
CacheOneDay == 60 * 60 * 24

CACHE_EXPIRATION == 604800

COMPRESS_TYPES == {<<"html">>, <<"css">>, <<"js">>, <<"txt">>, <<"xml">>}

COMPRESS_MIN_SIZE == 1024

PROGRESS_MIN_SIZE == 524288

MEGABYTE == 1048576

\* tries = 4 and tries = 6
TriesOneLess == 5 - 1

TriesOneMore == 5 + 1

Tries == 5

Delay == 3

BackoffThree == 2 + 1

Backoff == 2

\* the exception class the decorator is given
ExceptionToCheck == "socket.error"

---------------------------------------------------------------------------
\* Strings.

Q == "\""

\* str.lower() on the names and suffixes that occur
Lower(s) ==
  CASE s = "Cache-Control"    -> "cache-control"
    [] s = "Content-Encoding" -> "content-encoding"
    [] s = "ETag"             -> "etag"
    [] s = "Server"           -> "server"
    [] s = "X-Robots-Tag"     -> "x-robots-tag"
    [] s = "HTML"             -> "html"
    [] s = "CSS"              -> "css"
    [] s = "XML"              -> "xml"
    [] OTHER                  -> s

\* str.strip(c): every leading and every trailing c goes
RECURSIVE StripLeft(_, _)
StripLeft(v, c) ==
  IF v # <<>> /\ Head(v) = c THEN StripLeft(Tail(v), c) ELSE v

RECURSIVE StripRight(_, _)
StripRight(v, c) ==
  IF v # <<>> /\ v[Len(v)] = c
    THEN StripRight(SubSeq(v, 1, Len(v) - 1), c)
    ELSE v

\* nothing taken off
StripNothing(v, c) == v

Strip(v, c) == StripRight(StripLeft(v, c), c)

\* str.lower() on a string of several tokens
LowerSeq(v) == [i \in 1..Len(v) |-> Lower(v[i])]

\* 'max-age=%s' % n
MaxAge(n) == <<"max-age=", ToString(n)>>

---------------------------------------------------------------------------
\* Dictionaries: sequences of <<key, value>> pairs, in insertion order.

None == <<"None">>

RECURSIVE DictGet(_, _)
DictGet(d, k) ==
  IF d = <<>> THEN None
  ELSE IF Head(d)[1] = k THEN Head(d)[2] ELSE DictGet(Tail(d), k)

DictHas(d, k) == \E i \in 1..Len(d) : d[i][1] = k

DictSet(d, k, v) ==
  IF DictHas(d, k)
    THEN [i \in 1..Len(d) |-> IF d[i][1] = k THEN <<k, v>> ELSE d[i]]
    ELSE Append(d, <<k, v>>)

\* CaseInsensitiveDict.__setitem__: the key is normalised on insert
CISet(d, k, v) == DictSet(d, Lower(k), v)

\* CaseInsensitiveDict(pairs)
RECURSIVE CaseInsensitiveDict(_)
CaseInsensitiveDict(pairs) ==
  IF pairs = <<>> THEN <<>>
  ELSE CISet(CaseInsensitiveDict(SubSeq(pairs, 1, Len(pairs) - 1)),
             pairs[Len(pairs)][1], pairs[Len(pairs)][2])

\* getURLHeaders(url): the response's headers as a header mapping
GetURLHeaders(wire) == CaseInsensitiveDict(wire)

---------------------------------------------------------------------------
\* Payload and checksum.

\* File.data: the content of the file
Data(d) == [enc |-> "raw", bytes |-> d.bytes, len |-> d.len]

\* the length of the gzip stream of n bytes of this content: a header and
\* trailer, and the body at the content's ratio
GzipLen(n) == 20 + n \div 3

\* compressString(data)
CompressString(d) == [enc |-> "gzip", bytes |-> d.bytes, len |-> GzipLen(d.len)]

\* hashlib.md5(s).hexdigest(): one digest per byte string
Md5(s) ==
  CASE s.enc = "raw"  /\ s.bytes = "A" -> "d41d-raw-A"
    [] s.enc = "raw"  /\ s.bytes = "B" -> "9e10-raw-B"
    [] s.enc = "gzip" /\ s.bytes = "A" -> "77af-gz-A"
    [] s.enc = "gzip" /\ s.bytes = "B" -> "c3b2-gz-B"

\* os.path.splitext(path)[1]
SplitExt(p) == p.suffix

Extension(p) == LowerSeq(Strip(SplitExt(p), "."))

\* shouldCompress with the size test the other way round at the threshold
ShouldCompressAbove(p, d) ==
  IF ~(Extension(p) \in COMPRESS_TYPES) THEN FALSE
  ELSE IF Data(d).len <= COMPRESS_MIN_SIZE THEN FALSE
  ELSE TRUE

ShouldCompress(p, d) ==
  IF ~(Extension(p) \in COMPRESS_TYPES) THEN FALSE
  ELSE IF Data(d).len < COMPRESS_MIN_SIZE THEN FALSE
  ELSE TRUE

\* payload with the branches exchanged
PayloadInverted(p, d) ==
  IF ShouldCompress(p, d) THEN Data(d) ELSE CompressString(d)

Payload(p, d) ==
  IF ShouldCompress(p, d) THEN CompressString(d) ELSE Data(d)

\* the digest of the raw content
ChecksumOfData(p, d) == Md5(Data(d))

Checksum(p, d) == Md5(Payload(p, d))

---------------------------------------------------------------------------
\* The change decision.

\* {k: v.strip('"') for k, v in d.items()}: a plain dict
StripValues(d) == [i \in 1..Len(d) |-> <<d[i][1], Strip(d[i][2], Q)>>]

\* for k, v in local_headers.items(): if remote_headers.get(k) != v: return True
RECURSIVE AnyDiffers(_, _)
AnyDiffers(local_headers, remote_headers) ==
  IF local_headers = <<>> THEN FALSE
  ELSE IF DictGet(remote_headers, Head(local_headers)[1]) # Head(local_headers)[2]
    THEN TRUE
    ELSE AnyDiffers(Tail(local_headers), remote_headers)

\* self.headers once changed() has run, were local_headers not a copy
SelfHeadersAliased(hdrs, sum) == DictSet(hdrs, "etag", <<sum>>)

\* self.headers once changed() has run: local_headers is a copy, and
\* self.headers is what it was
SelfHeadersAfterChanged(hdrs, sum) == hdrs

\* copy.copy(self.headers), with the entity tag set
LocalHeaders(hdrs, sum) == CISet(hdrs, "etag", <<sum>>)

\* File.changed comparing the remote values as they come, quotes and all
ChangedUnstripped(hdrs, wire, sum) ==
  AnyDiffers(LocalHeaders(hdrs, sum), GetURLHeaders(wire))

\* File.changed flagging the headers of either set that the other lacks
ChangedBothWays(hdrs, wire, sum) ==
  \/ AnyDiffers(LocalHeaders(hdrs, sum), StripValues(GetURLHeaders(wire)))
  \/ AnyDiffers(StripValues(GetURLHeaders(wire)), LocalHeaders(hdrs, sum))

\* File.changed, given what the store answers
Changed(hdrs, wire, sum) ==
  AnyDiffers(LocalHeaders(hdrs, sum), StripValues(GetURLHeaders(wire)))

---------------------------------------------------------------------------
\* upload: the header set, the progress callback, the call of the store.

\* self.headers as a plain dict: the keys as written
UploadHeadersPlain(p, d) ==
  LET base == << <<"Cache-Control", MaxAge(CACHE_EXPIRATION)>> >>
  IN  IF ShouldCompress(p, d)
        THEN DictSet(base, "Content-Encoding", <<"gzip">>)
        ELSE base

\* self.headers as upload builds it
UploadHeaders(p, d) ==
  LET base == CaseInsensitiveDict(<< <<"Cache-Control", MaxAge(CACHE_EXPIRATION)>> >>)
  IN  IF ShouldCompress(p, d)
        THEN CISet(base, "Content-Encoding", <<"gzip">>)
        ELSE base

\* int(len(self.payload()) / (1024 * 1024))
ProgressCallbackCount(n) == n \div MEGABYTE

\* whether progressCallback is defined
\* the threshold itself included
HasProgressCallbackAtLeast(n) == n >= PROGRESS_MIN_SIZE

HasProgressCallback(n) == n > PROGRESS_MIN_SIZE

\* progressCallback(current, total) on [last, log]: logs a strict increase
ProgressCallback(st, current) ==
  IF current > st.last
    THEN [last |-> current, log |-> Append(st.log, current)]
    ELSE st

\* the callback over the reports of one set_contents_from_string
RECURSIVE RunCallbacks(_, _)
RunCallbacks(st, reports) ==
  IF reports = <<>> THEN st
  ELSE RunCallbacks(ProgressCallback(st, Head(reports)), Tail(reports))

\* what the store client reports while sending n bytes: the cumulative count,
\* starting at 0, never decreasing; the transfer may break off on the way
CbReports(n) == { <<0>>, <<0, n \div 2>>, <<0, n \div 2, n \div 2, n>> }

\* the reports the callback gets, if there is one
ReportsOf(n) == IF HasProgressCallback(n) THEN CbReports(n) ELSE {<<>>}

\* {'changed': changed, 'size': len(self.payload())}
Outcome(changed, p, d) == [changed |-> changed, size |-> Payload(p, d).len]

\* the headers the store answers for the key once the object has been put:
\* those attached to it, and the quoted digest of its bytes as entity tag
StoreAfterPut(hdrs, body) == Append(hdrs, <<"ETag", <<Q, Md5(body), Q>> >>)

---------------------------------------------------------------------------
\* The retry envelope around upload.

\* except Exception
CatchesAny(e) == e \in {"socket.error", "S3ResponseError"}

\* except ExceptionToCheck
Catches(e) == e = ExceptionToCheck

Exceptions == {"socket.error", "S3ResponseError"}

\* the collaborators upload calls: preDeployFile, getURLHeaders,
\* bucket.new_key, key.set_contents_from_string; the last but one is local
Collaborators == {"hook", "fetch", "key", "put"}

Stages == {"hook", "fetch", "put"}

NoCalls == [c \in Collaborators |-> 0]

NoRaises == [x \in Stages \X Exceptions |-> 0]

\* an exception e leaving the body of upload at stage `at`: caught, slept on
\* and the body run again while attempts remain; otherwise it leaves upload
Retry(e, at) ==
  /\ raises' = [raises EXCEPT ![<<at, e>>] = @ + 1]
  /\ IF Catches(e) /\ mtries > 1
       THEN /\ sleeps' = Append(sleeps, mdelay)
            /\ mtries' = mtries - 1
            /\ mdelay' = mdelay * Backoff
            /\ pc' = "enter"
            /\ error' = error
       ELSE /\ pc' = "raised"
            /\ error' = <<[kind |-> e, at |-> at]>>
            /\ UNCHANGED <<sleeps, mtries, mdelay>>

\* the body went one step further without an exception
NoRaise == UNCHANGED <<mtries, mdelay, sleeps, raises, error>>

---------------------------------------------------------------------------
\* The artifacts and the states of the store the model starts from.

Paths ==
  { [base |-> "index",  suffix |-> <<".", "html">>],
    [base |-> "STYLE",  suffix |-> <<".", "CSS">>],
    [base |-> "app",    suffix |-> <<".", "js">>],
    [base |-> "robots", suffix |-> <<".", "txt">>],
    [base |-> "feed",   suffix |-> <<".", "XML">>],
    [base |-> "logo",   suffix |-> <<".", "png">>],
    [base |-> "README", suffix |-> <<>>] }

Lens == {0, 1023, 1024, 524288, 524289, 2000000}

Disks == { [bytes |-> "A", len |-> n] : n \in Lens }

Artifacts == Paths \X Disks

\* the artifacts the runs with failures start from: not compressed for its
\* size, compressed, compressed and large, not compressed and large, empty
FewArtifacts ==
  { a \in Artifacts :
      \/ a[1].base = "index" /\ a[2].len \in {1023, 1024}
      \/ a[1].base = "STYLE" /\ a[2].len = 2000000
      \/ a[1].base = "logo"  /\ a[2].len \in {0, 2000000} }

\* the header the plugin of the model adds to self.headers
HookHeader == <<"X-Robots-Tag", <<"noindex">>>>

\* what the store holds for the key, header by header
RemoteChoices ==
  [ etag   : {"none", "quoted", "bare", "raw", "stale"},
    cc     : {"none", "same", "other"},
    ce     : {"none", "gzip"},
    extra  : {"none", "server", "hook"},
    casing : {"lower", "canonical"} ]

\* the states of the store the runs with failures start from: no object, or
\* an object put by an earlier deploy, with the current or with other bytes
FewRemoteChoices ==
  { c \in RemoteChoices :
      /\ c.casing = "canonical"
      /\ c.extra # "server"
      /\ \/ c.etag \in {"quoted", "stale"} /\ c.cc = "same"
         \/ c.etag = "none" /\ c.cc = "none" /\ c.ce = "none" /\ c.extra = "none" }

WireName(c, name) == IF c.casing = "lower" THEN Lower(name) ELSE name

\* the response headers of the store for choice c, for the artifact (p, d)
Wire(p, d, c) ==
  LET other == [bytes |-> "B", len |-> d.len]
      etag ==
        CASE c.etag = "none"   -> <<>>
          [] c.etag = "quoted" -> << <<WireName(c, "ETag"), <<Q, Md5(Payload(p, d)), Q>> >> >>
          [] c.etag = "bare"   -> << <<WireName(c, "ETag"), <<Md5(Payload(p, d))>> >> >>
          [] c.etag = "raw"    -> << <<WireName(c, "ETag"), <<Q, Md5(Data(d)), Q>> >> >>
          [] c.etag = "stale"  -> << <<WireName(c, "ETag"), <<Q, Md5(Payload(p, other)), Q>> >> >>
      cc ==
        CASE c.cc = "none"  -> <<>>
          [] c.cc = "same"  -> << <<WireName(c, "Cache-Control"), MaxAge(CACHE_EXPIRATION)>> >>
          [] c.cc = "other" -> << <<WireName(c, "Cache-Control"), MaxAge(0)>> >>
      ce ==
        CASE c.ce = "none" -> <<>>
          [] c.ce = "gzip" -> << <<WireName(c, "Content-Encoding"), <<"gzip">> >> >>
      extra ==
        CASE c.extra = "none"   -> <<>>
          [] c.extra = "server" -> << <<WireName(c, "Server"), <<"AmazonS3">> >> >>
          [] c.extra = "hook"   -> << <<WireName(c, HookHeader[1]), HookHeader[2]>> >>
  IN  extra \o etag \o cc \o ce

---------------------------------------------------------------------------
\* The state after File(site, path), and the steps of upload.

NoError == <<>>

NoResult == <<>>

\* memoize: the wrapped function runs on the first call only
RunsOnCall(cached) == IF cached THEN 0 ELSE 1

\* the attribute never found
HasPayloadNever(attr) == FALSE

\* hasattr(self, '_payload')
HasPayload(attr) == attr # <<>>

\* what self.data() returns: the memoized content, or the file as it is now
DataRead == IF memoData # <<>> THEN memoData[1] ELSE disk

\* len(self.payload()) once the payload is there
PayloadLen == IF HasPayload(memoPayload) THEN memoPayload[1].len ELSE 0

\* no second File
NoTwin == [me |-> 0]

InitWith(artifacts, choices) ==
  /\ \E a \in artifacts : path = a[1] /\ disk = a[2]
  /\ \E c \in choices : remote = Wire(path, disk, c)
  /\ hookAdds \in BOOLEAN
  /\ memoData = <<>>
  /\ memoPayload = <<>>
  /\ headers = <<>>
  /\ lastUpload = 0
  /\ pc = "idle"
  /\ mtries = Tries
  /\ mdelay = Delay
  /\ sleeps = <<>>
  /\ calls = NoCalls
  /\ raises = NoRaises
  /\ fetched = <<>>
  /\ error = NoError
  /\ result = NoResult
  /\ sent = <<>>
  /\ progressLog = <<>>
  /\ diskReads = 0
  /\ compressions = 0
  /\ syncs = 0
  /\ twin = NoTwin

Init == InitWith(FewArtifacts, FewRemoteChoices)

InitWide == InitWith(Artifacts, RemoteChoices)

\* file.upload(bucket) is called: the envelope starts with all its attempts
Sync ==
  /\ pc \in {"idle", "done", "raised"}
  /\ syncs < MaxSyncs
  /\ syncs' = syncs + 1
  /\ pc' = "enter"
  /\ mtries' = Tries
  /\ mdelay' = Delay
  /\ sleeps' = <<>>
  /\ calls' = NoCalls
  /\ raises' = NoRaises
  /\ fetched' = <<>>
  /\ error' = NoError
  /\ result' = NoResult
  /\ sent' = <<>>
  /\ progressLog' = <<>>
  /\ UNCHANGED <<twin, path, disk, remote, hookAdds, memoData, memoPayload, headers,
                 lastUpload, diskReads, compressions>>

\* the body of upload up to the hook: lastUpload, headers, shouldCompress
UploadEnter ==
  /\ pc = "enter"
  /\ lastUpload' = 0
  /\ headers' = UploadHeaders(path, DataRead)
  /\ IF Extension(path) \in COMPRESS_TYPES
       THEN /\ diskReads' = diskReads + RunsOnCall(memoData # <<>>)
            /\ memoData' = <<DataRead>>
       ELSE UNCHANGED <<diskReads, memoData>>
  /\ pc' = "hook"
  /\ NoRaise
  /\ UNCHANGED <<twin, path, disk, remote, hookAdds, memoPayload, calls, fetched,
                 result, sent, progressLog, compressions, syncs>>

\* self.site.plugin_manager.preDeployFile(self)
PreDeployFile(outcome) ==
  /\ pc = "hook"
  /\ calls' = [calls EXCEPT !["hook"] = @ + 1]
  /\ IF outcome = "ok"
       THEN /\ headers' = IF hookAdds
                            THEN CISet(headers, HookHeader[1], HookHeader[2])
                            ELSE headers
            /\ pc' = "changed"
            /\ NoRaise
       ELSE /\ Retry(outcome, "hook")
            /\ UNCHANGED headers
  /\ UNCHANGED <<twin, path, disk, remote, hookAdds, memoData, memoPayload,
                 lastUpload, fetched, result, sent, progressLog, diskReads,
                 compressions, syncs>>

\* changed = self.changed(), and for an unchanged file the rest of upload
ChangedStep(outcome) ==
  /\ pc = "changed"
  /\ calls' = [calls EXCEPT !["fetch"] = @ + 1]
  /\ IF outcome = "ok"
       THEN /\ fetched' = remote
            /\ memoPayload' = IF HasPayload(memoPayload)
                                THEN memoPayload
                                ELSE <<Payload(path, DataRead)>>
            /\ memoData' = <<DataRead>>
            /\ diskReads' = IF HasPayload(memoPayload) THEN diskReads
                            ELSE diskReads + RunsOnCall(memoData # <<>>)
            /\ compressions' = IF ~HasPayload(memoPayload)
                                    /\ ShouldCompress(path, DataRead)
                                 THEN compressions + 1
                                 ELSE compressions
            /\ headers' = SelfHeadersAfterChanged(headers, Checksum(path, DataRead))
            /\ IF Changed(headers, remote, Checksum(path, DataRead))
                 THEN /\ pc' = "put"
                      /\ UNCHANGED result
                 ELSE /\ pc' = "done"
                      /\ result' = <<Outcome(FALSE, path, DataRead)>>
            /\ NoRaise
       ELSE /\ Retry(outcome, "fetch")
            /\ UNCHANGED <<fetched, memoPayload, memoData, diskReads,
                           compressions, result, headers>>
  /\ UNCHANGED <<twin, path, disk, remote, hookAdds, lastUpload, sent,
                 progressLog, syncs>>

\* bucket.new_key and key.set_contents_from_string, and the rest of upload
PutContents(outcome, reports) ==
  /\ pc = "put"
  /\ LET body == memoPayload[1]
         cb   == HasProgressCallback(body.len)
         st   == IF cb
                   THEN RunCallbacks([last |-> lastUpload, log |-> progressLog], reports)
                   ELSE [last |-> lastUpload, log |-> progressLog]
     IN  /\ calls' = [calls EXCEPT !["key"] = @ + 1, !["put"] = @ + 1]
         /\ sent' = Append(sent, [body    |-> body,
                                  headers |-> headers,
                                  policy  |-> "public-read",
                                  cb      |-> cb,
                                  num_cb  |-> ProgressCallbackCount(body.len)])
         /\ lastUpload' = st.last
         /\ progressLog' = st.log
         /\ IF outcome = "ok"
              THEN /\ remote' = StoreAfterPut(headers, body)
                   /\ pc' = "done"
                   /\ result' = <<Outcome(TRUE, path, DataRead)>>
                   /\ NoRaise
              ELSE /\ Retry(outcome, "put")
                   /\ UNCHANGED <<remote, result>>
  /\ UNCHANGED <<twin, path, disk, hookAdds, memoData, memoPayload, headers,
                 fetched, diskReads, compressions, syncs>>

Outcomes == {"ok"} \cup Exceptions

Next ==
  \/ Sync
  \/ UploadEnter
  \/ \E o \in Outcomes : PreDeployFile(o)
  \/ \E o \in Outcomes : ChangedStep(o)
  \/ \E o \in Outcomes : \E r \in ReportsOf(PayloadLen) : PutContents(o, r)

\* every collaborator may fail, on a few artifacts and states of the store
Spec == Init /\ [][Next]_vars

\* the steps of upload when no collaborator fails
NextQuiet ==
  \/ Sync
  \/ UploadEnter
  \/ PreDeployFile("ok")
  \/ ChangedStep("ok")
  \/ \E r \in ReportsOf(PayloadLen) : PutContents("ok", r)

\* no collaborator fails, on every artifact and state of the store
SpecQuiet == InitWide /\ [][NextQuiet]_vars

\* the caller is between two calls of upload
AtRest == pc \in {"idle", "done", "raised"}

\* file.payload(), and file.checksum() which is a digest of it, called from
\* outside upload
CallPayload ==
  /\ AtRest
  /\ memoPayload' = IF HasPayload(memoPayload)
                      THEN memoPayload
                      ELSE <<Payload(path, DataRead)>>
  /\ memoData' = IF HasPayload(memoPayload) THEN memoData ELSE <<DataRead>>
  /\ diskReads' = IF HasPayload(memoPayload) THEN diskReads
                  ELSE diskReads + RunsOnCall(memoData # <<>>)
  /\ compressions' = IF ~HasPayload(memoPayload)
                          /\ ShouldCompress(path, DataRead)
                       THEN compressions + 1
                       ELSE compressions
  /\ UNCHANGED <<twin, path, disk, remote, hookAdds, headers, lastUpload, pc, mtries,
                 mdelay, sleeps, calls, raises, fetched, error, result, sent,
                 progressLog, syncs>>

\* file.shouldCompress() called from outside upload
CallShouldCompress ==
  /\ AtRest
  /\ IF Extension(path) \in COMPRESS_TYPES
       THEN /\ diskReads' = diskReads + RunsOnCall(memoData # <<>>)
            /\ memoData' = <<DataRead>>
       ELSE UNCHANGED <<diskReads, memoData>>
  /\ UNCHANGED <<twin, path, disk, remote, hookAdds, memoPayload, headers,
                 lastUpload, pc, mtries, mdelay, sleeps, calls, raises,
                 fetched, error, result, sent, progressLog, compressions,
                 syncs>>

\* the file under .build as a later build leaves it: other bytes, and a
\* length on the other side of COMPRESS_MIN_SIZE
EditedDisk(d) ==
  [bytes |-> "B",
   len   |-> IF d.len >= COMPRESS_MIN_SIZE
               THEN COMPRESS_MIN_SIZE - 1
               ELSE COMPRESS_MIN_SIZE]

\* the file is rewritten while the File object lives
EditFile ==
  /\ disk.bytes = "A"
  /\ disk' = EditedDisk(disk)
  /\ UNCHANGED <<twin, path, remote, hookAdds, memoData, memoPayload, headers,
                 lastUpload, pc, mtries, mdelay, sleeps, calls, raises,
                 fetched, error, result, sent, progressLog, diskReads,
                 compressions, syncs>>

\* upload whose upload call may fail at socket level, the methods of the
\* File called in between, the file rewritten at any moment
NextCache ==
  \/ Sync
  \/ UploadEnter
  \/ PreDeployFile("ok")
  \/ ChangedStep("ok")
  \/ \E o \in {"ok", "socket.error"} :
       \E r \in ReportsOf(PayloadLen) : PutContents(o, r)
  \/ CallPayload
  \/ CallShouldCompress
  \/ EditFile

SpecCache == Init /\ [][NextCache]_vars

\* Two File objects of one deploy, their calls of upload interleaved.

\* where the store keeps what a File uploads: bucket.new_key(self.path)
StoreKeyBucket(p) == <<"bucket">>

StoreKey(p) == <<p.base, p.suffix>>

\* the fields of the File that is executing, and the state of its call
LocalState ==
  [path |-> path, disk |-> disk, memoData |-> memoData,
   memoPayload |-> memoPayload, headers |-> headers,
   lastUpload |-> lastUpload, pc |-> pc, mtries |-> mtries,
   mdelay |-> mdelay, sleeps |-> sleeps, calls |-> calls, raises |-> raises,
   fetched |-> fetched, error |-> error, result |-> result, sent |-> sent,
   progressLog |-> progressLog, diskReads |-> diskReads,
   compressions |-> compressions, syncs |-> syncs]

\* File(site, path) for artifact a
FreshFile(a) ==
  [path |-> a[1], disk |-> a[2], memoData |-> <<>>, memoPayload |-> <<>>,
   headers |-> <<>>, lastUpload |-> 0, pc |-> "idle", mtries |-> Tries,
   mdelay |-> Delay, sleeps |-> <<>>, calls |-> NoCalls, raises |-> NoRaises,
   fetched |-> <<>>, error |-> NoError, result |-> NoResult, sent |-> <<>>,
   progressLog |-> <<>>, diskReads |-> 0, compressions |-> 0, syncs |-> 0]

\* a small page that is compressed, and a large image that is not
FirstArtifact ==
  << [base |-> "index", suffix |-> <<".", "html">>], [bytes |-> "A", len |-> 1024] >>

SecondArtifact ==
  << [base |-> "logo", suffix |-> <<".", "png">>], [bytes |-> "A", len |-> 2000000] >>

\* no object under the key, or the object as an earlier deploy put it
TwoRemoteChoices ==
  { c \in FewRemoteChoices :
      \/ c.etag = "none"
      \/ c.etag = "quoted" /\ c.extra = "hook" }

InitTwo ==
  \E c1 \in TwoRemoteChoices : \E c2 \in TwoRemoteChoices :
    LET w1 == Wire(FirstArtifact[1], FirstArtifact[2], c1)
        w2 == Wire(SecondArtifact[1], SecondArtifact[2], c2)
        store == (StoreKey(SecondArtifact[1]) :> w2) @@ (StoreKey(FirstArtifact[1]) :> w1)
    IN  /\ path = FirstArtifact[1]
        /\ disk = FirstArtifact[2]
        /\ remote = store[StoreKey(FirstArtifact[1])]
        /\ hookAdds \in BOOLEAN
        /\ memoData = <<>>
        /\ memoPayload = <<>>
        /\ headers = <<>>
        /\ lastUpload = 0
        /\ pc = "idle"
        /\ mtries = Tries
        /\ mdelay = Delay
        /\ sleeps = <<>>
        /\ calls = NoCalls
        /\ raises = NoRaises
        /\ fetched = <<>>
        /\ error = NoError
        /\ result = NoResult
        /\ sent = <<>>
        /\ progressLog = <<>>
        /\ diskReads = 0
        /\ compressions = 0
        /\ syncs = 0
        /\ twin = [me      |-> 1,
                   file    |-> FreshFile(SecondArtifact),
                   store   |-> store,
                   remote0 |-> <<w1, w2>>]

\* the other execution unit goes on: the File that was executing is set
\* aside as it stands, what it put is in the store under its key
Switch ==
  LET store == [twin.store EXCEPT ![StoreKey(path)] = remote]
      f     == twin.file
  IN  /\ twin.me \in {1, 2}
      /\ twin' = [twin EXCEPT !.me = 3 - @, !.file = LocalState, !.store = store]
      /\ remote' = store[StoreKey(f.path)]
      /\ path' = f.path
      /\ disk' = f.disk
      /\ memoData' = f.memoData
      /\ memoPayload' = f.memoPayload
      /\ headers' = f.headers
      /\ lastUpload' = f.lastUpload
      /\ pc' = f.pc
      /\ mtries' = f.mtries
      /\ mdelay' = f.mdelay
      /\ sleeps' = f.sleeps
      /\ calls' = f.calls
      /\ raises' = f.raises
      /\ fetched' = f.fetched
      /\ error' = f.error
      /\ result' = f.result
      /\ sent' = f.sent
      /\ progressLog' = f.progressLog
      /\ diskReads' = f.diskReads
      /\ compressions' = f.compressions
      /\ syncs' = f.syncs
      /\ UNCHANGED hookAdds

\* the deploy calls upload once on each File
SyncOnce == syncs = 0 /\ Sync

\* two calls of upload interleaved at every step; the hook may fail, the
\* upload call may fail at socket level
NextTwo ==
  \/ SyncOnce
  \/ UploadEnter
  \/ \E o \in {"ok", "S3ResponseError"} : PreDeployFile(o)
  \/ ChangedStep("ok")
  \/ \E o \in {"ok", "socket.error"} :
       \E r \in ReportsOf(PayloadLen) : PutContents(o, r)
  \/ Switch

SpecTwo == InitTwo /\ [][NextTwo]_vars

---------------------------------------------------------------------------
\* What the claims speak of.

Returned == pc = "done"

Raised == pc = "raised"

\* the exceptions of class e raised at stage `at` during this call
Raises(at, e) == raises[<<at, e>>]

Socks(at) == Raises(at, "socket.error")

AllSocks == Socks("hook") + Socks("fetch") + Socks("put")

\* nothing but the store's upload call has failed during this call
OnlyPutFailed ==
  \A x \in Stages \X Exceptions : x # <<"put", "socket.error">> => raises[x] = 0

\* upload has taken the change decision of the current attempt
Decided == pc \in {"put", "done"}

\* the value of `changed` in upload
Decision == IF pc = "put" THEN TRUE ELSE result[1].changed

\* the digest of the bytes to transfer, from the artifact alone
PayloadDigest ==
  IF Extension(path) \in COMPRESS_TYPES /\ disk.len >= COMPRESS_MIN_SIZE
    THEN Md5([enc |-> "gzip", bytes |-> disk.bytes, len |-> GzipLen(disk.len)])
    ELSE Md5([enc |-> "raw", bytes |-> disk.bytes, len |-> disk.len])

\* the local header set of the decision: self.headers and the entity tag
LocalSet ==
  { h \in {headers[i] : i \in 1..Len(headers)} : Lower(h[1]) # "etag" }
    \cup { <<"etag", <<PayloadDigest>> >> }

\* the remote set holds local header h: the same name up to letter case, the
\* same value once the quotes around the remote value are gone
RemoteHolds(wire, h) ==
  \E j \in 1..Len(wire) :
    /\ Lower(wire[j][1]) = Lower(h[1])
    /\ Strip(wire[j][2], Q) = h[2]

\* every local header has an equal value in the remote set that was fetched
LocalInRemote == \A h \in LocalSet : RemoteHolds(fetched, h)

---------------------------------------------------------------------------
\* C1: when every header of the local set (cache-control, content-encoding
\* when present, the entity tag equal to the payload checksum) has an equal
\* value in the remote set, upload never reaches the store's upload calls
\* (no new_key, no set_contents_from_string, in any attempt of the call) and
\* returns changed = false.
C1_UnchangedSkipsUpload ==
  (Decided /\ LocalInRemote) =>
    /\ pc = "done"
    /\ result[1].changed = FALSE
    /\ calls["key"] = 0
    /\ calls["put"] = 0
    /\ sent = <<>>

\* an unchanged artifact returned, after an attempt that failed on the way
C1_Witness ==
  /\ Returned
  /\ LocalInRemote
  /\ result[1].changed = FALSE
  /\ calls["fetch"] = 2
  /\ Len(fetched) >= 3

\* C2: for a changed artifact, when the store's upload call raises
\* socket.error on the first k attempts (k in 0..4) and nothing else fails,
\* the error has not left upload; when attempt k+1 succeeds upload returns
\* changed = true without an error, after exactly k+1 upload attempts.
C2_RetriesUntilSuccess ==
  /\ (OnlyPutFailed /\ Socks("put") <= 4) => ~Raised
  /\ (OnlyPutFailed /\ Returned /\ result[1].changed) =>
       /\ error = NoError
       /\ Socks("put") \in 0..4
       /\ calls["put"] = Socks("put") + 1
       /\ Len(sent) = Socks("put") + 1

\* four transient failures of the upload call, and the fifth succeeded
C2_Witness ==
  /\ OnlyPutFailed
  /\ Returned
  /\ result[1].changed
  /\ Socks("put") = 4
  /\ calls["put"] = 5

\* C3: for a changed artifact, when every upload attempt raises socket.error
\* (and nothing else fails), upload makes exactly 5 upload attempts and no
\* more, and the fifth failure leaves upload: no outcome is returned.
C3_FifthFailurePropagates ==
  /\ calls["put"] <= 5
  /\ Socks("put") >= 5 =>
       /\ Raised
       /\ error = <<[kind |-> "socket.error", at |-> "put"]>>
       /\ result = NoResult
  /\ (OnlyPutFailed /\ Raised) =>
       /\ calls["put"] = 5
       /\ Socks("put") = 5

\* five transient failures of the upload call
C3_Witness ==
  /\ OnlyPutFailed
  /\ Raised
  /\ Socks("put") = 5
  /\ calls["put"] = 5
  /\ error = <<[kind |-> "socket.error", at |-> "put"]>>

\* C4: an error of the upload call that is not a socket-level error leaves
\* upload at once: the call that raised it is the last upload attempt, and
\* the envelope has slept only after socket errors, never for this one.
C4_NonTransientNotRetried ==
  /\ Raises("put", "S3ResponseError") >= 1 =>
       /\ Raised
       /\ error = <<[kind |-> "S3ResponseError", at |-> "put"]>>
       /\ Raises("put", "S3ResponseError") = 1
       /\ calls["put"] = Socks("put") + 1
       /\ result = NoResult
  /\ Len(sleeps) <= AllSocks
  /\ (Raised /\ AllSocks = 0) => sleeps = <<>>

\* the first upload attempt failed with an error of the store, and that was
\* the end of the call
C4_Witness ==
  /\ Raised
  /\ error = <<[kind |-> "S3ResponseError", at |-> "put"]>>
  /\ calls["put"] = 1
  /\ sleeps = <<>>

\* C5: in one call of upload, however often the upload is retried, the
\* pre-deploy hook is invoked exactly once and the remote metadata is
\* fetched exactly once.
C5_HookAndFetchOnce ==
  OnlyPutFailed =>
    /\ calls["hook"] <= 1
    /\ calls["fetch"] <= 1
    /\ (Returned \/ Raised) => calls["hook"] = 1 /\ calls["fetch"] = 1

\* C6: a failure of the pre-deploy hook, of whatever class, leaves upload
\* after that one invocation of the hook: it is not retried, and neither
\* the metadata fetch nor the upload call is made.
C6_HookFailureFatal ==
  (Raises("hook", "socket.error") + Raises("hook", "S3ResponseError") >= 1) =>
    /\ Raised
    /\ error[1].at = "hook"
    /\ calls["hook"] = 1
    /\ calls["fetch"] = 0
    /\ calls["put"] = 0

\* C7: a socket-level failure of the remote metadata fetch leaves upload
\* after that one fetch: no sleep, no second attempt.
C7_FetchFailureNotRetried ==
  Socks("fetch") >= 1 =>
    /\ Raised
    /\ error = <<[kind |-> "socket.error", at |-> "fetch"]>>
    /\ calls["fetch"] = 1
    /\ Len(sleeps) = Socks("hook")

\* the headers of the remote set that the local set names, and a header of
\* the store's own that the local set does not name
SharedWith(wire, local) ==
  SelectSeq(wire, LAMBDA w : \E h \in local : Lower(w[1]) = Lower(h[1]))

StoreOwnHeader == <<"x-amz-request-id", <<"0A1B2C">>>>

\* C8: changed() is true exactly when some header of the local set
\* (self.headers and the entity tag set to the payload checksum) has no
\* equal value in the remote set, the quotes around the remote values
\* stripped; the headers only the remote set holds, removed or added, leave
\* the result as it is.
C8_LocalDrivenDiff ==
  Decided =>
    /\ Decision <=> (\E h \in LocalSet : ~RemoteHolds(fetched, h))
    /\ Decision = Changed(headers, SharedWith(fetched, LocalSet),
                          Checksum(path, disk))
    /\ Decision = Changed(headers, Append(fetched, StoreOwnHeader),
                          Checksum(path, disk))

\* unchanged, with a header in the remote set that the local set lacks
C8_Witness ==
  /\ Decided
  /\ ~Decision
  /\ \E j \in 1..Len(fetched) : Lower(fetched[j][1]) = "server"
  /\ Len(SharedWith(fetched, LocalSet)) < Len(fetched)

\* some header of the remote set is named as a local one, in other case
CaseDiffers ==
  \E h \in LocalSet : \E j \in 1..Len(fetched) :
    fetched[j][1] # h[1] /\ Lower(fetched[j][1]) = Lower(h[1])

\* C9: header names are compared without regard to letter case: a local
\* header whose remote counterpart differs in the case of its name only,
\* the unquoted value being equal, counts as matching, and a local set all
\* of whose headers match so yields changed = false.
C9_NamesCaseInsensitive ==
  (Decided /\ CaseDiffers /\ LocalInRemote) => ~Decision

\* unchanged against 'ETag' and 'Cache-Control' as the store spells them
C9_Witness ==
  /\ Decided
  /\ ~Decision
  /\ \E j \in 1..Len(fetched) : fetched[j][1] = "ETag"
  /\ \E j \in 1..Len(fetched) : fetched[j][1] = "Cache-Control"
  /\ \E i \in 1..Len(headers) : headers[i][1] = "cache-control"

\* the local headers other than the entity tag
OtherLocal == { h \in LocalSet : h[1] # "etag" }

\* the remote entity tag, unquoted, is not the digest of the payload, or
\* there is none
TagDiffers == ~RemoteHolds(fetched, <<"etag", <<PayloadDigest>> >>)

\* C10: when the remote entity tag (unquoted) differs from the checksum of the
\* payload, or the remote object does not exist, upload decides changed =
\* true and, no collaborator failing, uploads the payload and returns
\* changed = true, whatever the other headers; the checksum is that of the
\* payload (the compressed bytes for a compressed artifact), not of the raw
\* content.
C10_TagMismatchForcesUpload ==
  (Decided /\ TagDiffers) =>
    /\ Decision
    /\ Returned =>
         /\ calls["put"] = 1
         /\ Md5(sent[1].body) = PayloadDigest
         /\ (Extension(path) \in COMPRESS_TYPES /\ disk.len >= COMPRESS_MIN_SIZE)
              => sent[1].body.enc = "gzip"

\* a compressed artifact uploaded because the remote tag is the digest of
\* its raw content, every other header matching
C10_Witness ==
  /\ Returned
  /\ result[1].changed
  /\ calls["put"] = 1
  /\ sent[1].body.enc = "gzip"
  /\ \E j \in 1..Len(fetched) :
       /\ Lower(fetched[j][1]) = "etag"
       /\ fetched[j][2] = <<Q, Md5(Data(disk)), Q>>
  /\ \A h \in OtherLocal : RemoteHolds(fetched, h)

\* the same, the object missing from the store
C10_WitnessNoObject ==
  /\ Returned
  /\ result[1].changed
  /\ fetched = <<>>
  /\ calls["put"] = 1

---------------------------------------------------------------------------
\* the header set upload builds and the hook of the model leaves, from the
\* artifact alone
BuiltHeaders ==
  << <<"cache-control", <<"max-age=", "604800">> >> >>
    \o (IF Extension(path) \in COMPRESS_TYPES /\ disk.len >= COMPRESS_MIN_SIZE
          THEN << <<"content-encoding", <<"gzip">> >> >>
          ELSE <<>>)
    \o (IF hookAdds THEN << <<"x-robots-tag", <<"noindex">> >> >> ELSE <<>>)

\* C11 as stated: the header set passed to every set_contents_from_string
\* holds an etag entry whose value is the checksum of the payload.
C11_SentHeadersCarryTag ==
  \A i \in 1..Len(sent) :
    \E j \in 1..Len(sent[i].headers) :
      /\ Lower(sent[i].headers[j][1]) = "etag"
      /\ sent[i].headers[j][2] = <<PayloadDigest>>

\* C11: the header set passed to every set_contents_from_string is
\* self.headers as upload built it and the hook left it: cache-control,
\* content-encoding for a compressed artifact, the hook's additions. The
\* entity tag is set on the copy the change decision compares, and is not
\* among the headers passed.
C11_SentHeadersAreSelfHeaders ==
  \A i \in 1..Len(sent) :
    /\ sent[i].headers = BuiltHeaders
    /\ \A j \in 1..Len(sent[i].headers) : Lower(sent[i].headers[j][1]) # "etag"
    /\ \E h \in LocalSet : h[1] = "etag" /\ h[2] = <<Md5(sent[i].body)>>

\* a compressed artifact with the hook's header, uploaded at the second attempt
C11_Witness ==
  /\ Returned
  /\ result[1].changed
  /\ Len(sent) = 2
  /\ hookAdds
  /\ Len(sent[2].headers) = 3

---------------------------------------------------------------------------
\* the extension of the path in lower case, path by path
LowerCasedExtension ==
  CASE path.base = "index"  -> "html"
    [] path.base = "STYLE"  -> "css"
    [] path.base = "app"    -> "js"
    [] path.base = "robots" -> "txt"
    [] path.base = "feed"   -> "xml"
    [] path.base = "logo"   -> "png"
    [] path.base = "README" -> ""

\* upload has built self.headers from shouldCompress()
HeadersBuilt == headers # <<>>

\* C12: shouldCompress is true exactly when the lower-cased extension of the
\* path is one of html, css, js, txt, xml and the raw content has at least
\* 1024 bytes: false below 1024 bytes (zero included) whatever the
\* extension, false for any other extension whatever the size.
C12_ShouldCompressIff ==
  LET listed == LowerCasedExtension \in {"html", "css", "js", "txt", "xml"}
      marked == DictHas(headers, "content-encoding")
  IN  /\ ShouldCompress(path, disk) <=> (listed /\ disk.len >= 1024)
      /\ HeadersBuilt =>
           /\ marked <=> (listed /\ disk.len >= 1024)
           /\ disk.len < 1024 => ~marked
           /\ ~listed => ~marked

\* 'STYLE.CSS' of exactly 1024 bytes is to be compressed
C12_Witness ==
  /\ pc = "hook"
  /\ path.suffix = <<".", "CSS">>
  /\ disk.len = 1024
  /\ DictHas(headers, "content-encoding")

\* 'feed.XML' of 1023 bytes and a large 'logo.png' are not
C12_WitnessNot ==
  /\ pc = "hook"
  /\ ~DictHas(headers, "content-encoding")
  /\ \/ path.base = "feed" /\ disk.len = 1023
     \/ path.base = "logo" /\ disk.len = 2000000

---------------------------------------------------------------------------
\* the raw content, and its compressed transform, as byte strings
RawContent == [enc |-> "raw", bytes |-> disk.bytes, len |-> disk.len]

Compressed == [enc |-> "gzip", bytes |-> disk.bytes, len |-> 20 + disk.len \div 3]

ListedExtension == LowerCasedExtension \in {"html", "css", "js", "txt", "xml"}

\* C13: once the payload has been computed it is the compressed transform of
\* the raw content if shouldCompress holds, and the raw content itself
\* otherwise; for an extension outside the list the payload is the raw
\* content and the checksum is the hash of the raw content.
C13_PayloadCompressedIff ==
  HasPayload(memoPayload) =>
    /\ ShouldCompress(path, disk) => memoPayload[1] = Compressed
    /\ ~ShouldCompress(path, disk) => memoPayload[1] = RawContent
    /\ (ListedExtension /\ disk.len >= 1024) => memoPayload[1] = Compressed
    /\ ~ListedExtension =>
         /\ memoPayload[1] = RawContent
         /\ Checksum(path, disk) = Md5(RawContent)
         /\ \A i \in 1..Len(sent) : sent[i].body = RawContent
         /\ result # NoResult => result[1].size = disk.len
         /\ (Decided /\ \A h \in OtherLocal : RemoteHolds(fetched, h)) =>
              (Decision <=> ~RemoteHolds(fetched, <<"etag", <<Md5(RawContent)>> >>))

\* a compressed payload, computed and sent
C13_Witness ==
  /\ Returned
  /\ HasPayload(memoPayload)
  /\ memoPayload[1] = Compressed
  /\ Len(sent) = 1
  /\ sent[1].body.enc = "gzip"

\* a large 'logo.png' sent as it is
C13_WitnessRaw ==
  /\ Returned
  /\ path.base = "logo"
  /\ disk.len = 2000000
  /\ memoPayload = <<RawContent>>
  /\ Len(sent) = 1

---------------------------------------------------------------------------
\* the value stored under a header name, looked up without regard to case
HeaderValues(hdrs, name) ==
  { hdrs[j][2] : j \in { k \in 1..Len(hdrs) : Lower(hdrs[k][1]) = Lower(name) } }

\* C14: the local header set built by a sync, before the pre-deploy hook has
\* touched it, always holds Cache-Control with the value 'max-age=604800',
\* and holds Content-Encoding with the value 'gzip' if and only if
\* shouldCompress holds for the artifact.
C14_BuiltHeaderSet ==
  pc = "hook" =>
    /\ HeaderValues(headers, "Cache-Control") = { <<"max-age=", "604800">> }
    /\ ShouldCompress(path, disk) =>
         HeaderValues(headers, "Content-Encoding") = { <<"gzip">> }
    /\ ~ShouldCompress(path, disk) =>
         HeaderValues(headers, "Content-Encoding") = {}
    /\ (ListedExtension /\ disk.len >= 1024) <=>
         DictHas(headers, "content-encoding")
    /\ Len(headers) = IF ShouldCompress(path, disk) THEN 2 ELSE 1

\* the header set of a compressible artifact, the hook about to run
C14_Witness ==
  /\ pc = "hook"
  /\ ShouldCompress(path, disk)
  /\ HeaderValues(headers, "Content-Encoding") = { <<"gzip">> }
  /\ HeaderValues(headers, "Cache-Control") = { <<"max-age=", "604800">> }

\* the header set of an artifact sent as it is
C14_WitnessPlain ==
  /\ pc = "hook"
  /\ ~ShouldCompress(path, disk)
  /\ Len(headers) = 1

---------------------------------------------------------------------------
StrictlyIncreasing(log) ==
  \A i \in 1..Len(log) : \A j \in 1..Len(log) : i < j => log[i] < log[j]

\* C16: within one call of upload, its retried attempts included, the
\* cumulative byte counts the progress observer logs are strictly
\* increasing: no value is logged twice, none below one already logged.
C16_ProgressLogIncreasing == StrictlyIncreasing(progressLog)

---------------------------------------------------------------------------
C17_WitnessThreshold ==
  /\ Returned
  /\ Len(sent) = 1
  /\ sent[1].body.len = 524288
  /\ ~sent[1].cb
  /\ sent[1].num_cb = 0

\* an unchanged artifact above the threshold: nothing sent, nothing logged
C17_WitnessUnchanged ==
  /\ Returned
  /\ ~result[1].changed
  /\ result[1].size > 524288
  /\ sent = <<>>

---------------------------------------------------------------------------
\* C18: the envelope sleeps only between attempts: not before the first
\* attempt, 3 * 2^(n-1) seconds (3, 6, 12, 24) before attempt n+1 for
\* n = 1..4, and not after the fifth failure, which propagates.
C18_DelaysBetweenAttempts ==
  /\ AllSocks = 0 => sleeps = <<>>
  /\ Len(sleeps) <= 4
  /\ \A n \in 1..Len(sleeps) : sleeps[n] = 3 * 2^(n - 1)
  /\ \E k \in 0..4 : sleeps = SubSeq(<<3, 6, 12, 24>>, 1, k)
  /\ AllSocks <= 4 => Len(sleeps) = AllSocks
  /\ AllSocks >= 5 =>
       /\ AllSocks = 5
       /\ Raised
       /\ error[1].kind = "socket.error"
       /\ sleeps = <<3, 6, 12, 24>>

\* five socket errors: four sleeps, the error out
C18_Witness ==
  /\ Raised
  /\ AllSocks = 5
  /\ sleeps = <<3, 6, 12, 24>>

\* a success at the third attempt, after two sleeps
C18_WitnessThird ==
  /\ Returned
  /\ AllSocks = 2
  /\ sleeps = <<3, 6>>

---------------------------------------------------------------------------
\* C19: the payload is computed once and kept: over any sequence of
\* payload(), checksum(), shouldCompress(), changed() and upload() calls on
\* one File, retried attempts included, the compressor runs at most once,
\* the file is read at most once, and every payload() returns the bytes the
\* first one returned.
C19_PayloadComputedOnce ==
  /\ [](/\ diskReads <= 1
        /\ compressions <= 1
        /\ HasPayload(memoPayload) => memoData # <<>> /\ diskReads = 1
        /\ \A i \in 1..Len(sent) : sent[i].body = memoPayload[1]
        /\ result # NoResult => result[1].size = memoPayload[1].len)
  /\ [][/\ HasPayload(memoPayload) => memoPayload' = memoPayload
        /\ memoData # <<>> => memoData' = memoData]_vars

\* the second upload of a File whose file was rewritten after the first:
\* a retried attempt, one read, one compression, the first bytes sent
C19_Witness ==
  /\ syncs = 2
  /\ Returned
  /\ Socks("put") >= 1
  /\ disk.bytes = "B"
  /\ Len(sent) = 2
  /\ sent[2].body.bytes = "A"
  /\ sent[2].body.enc = "gzip"
  /\ diskReads = 1
  /\ compressions = 1

---------------------------------------------------------------------------
\* what the store reports for the key after an upload of the payload with
\* header set hdrs: those headers, and the quoted digest as entity tag
ReportedAfterUpload(hdrs) ==
  hdrs \o << <<"ETag", <<"\"", PayloadDigest, "\"">> >> >>

\* C20: upload converges: after an upload that succeeded, the store
\* reporting for the key exactly the headers attached to it and the quoted
\* hash of the bytes sent as entity tag, the next upload of the same
\* unmodified File returns changed = false and makes no upload call.
C20_SyncConverges ==
  /\ (Returned /\ result[1].changed) =>
       /\ sent # <<>>
       /\ remote = ReportedAfterUpload(sent[Len(sent)].headers)
  /\ (Decided /\ fetched = ReportedAfterUpload(headers)) =>
       /\ syncs >= 2
       /\ ~Decision
       /\ Returned
       /\ result[1] = [changed |-> FALSE, size |-> result[1].size]
       /\ calls["put"] = 0
       /\ calls["key"] = 0
       /\ sent = <<>>

\* a second upload right after one that succeeded: unchanged, nothing sent
C20_Witness ==
  /\ syncs = 2
  /\ Returned
  /\ fetched = ReportedAfterUpload(headers)
  /\ ~result[1].changed
  /\ calls["put"] = 0
  /\ ShouldCompress(path, disk)
  /\ hookAdds

---------------------------------------------------------------------------
\* the outcome of the File with state f, the i-th of the deploy, is the one
\* of its call of upload alone against the store as the deploy found it
OutcomeAsAlone(f, i) ==
  LET found   == twin.remote0[i]
      socks   == f.raises[<<"put", "socket.error">>]
      changed == Changed(f.headers, found, Checksum(f.path, f.disk))
  IN  /\ f.fetched # <<>> => f.fetched = found
      /\ f.calls["fetch"] >= 1 => f.fetched = found
      /\ f.pc = "done" =>
           /\ f.result[1].changed = changed
           /\ f.result[1].size = Payload(f.path, f.disk).len
           /\ f.calls["put"] = IF changed THEN socks + 1 ELSE 0
           /\ f.error = NoError
      /\ f.pc = "raised" =>
           /\ f.result = NoResult
           /\ \/ /\ f.error[1] = [kind |-> "socket.error", at |-> "put"]
                 /\ socks = 5
                 /\ f.calls["put"] = 5
              \/ /\ f.error[1] = [kind |-> "S3ResponseError", at |-> "hook"]
                 /\ f.raises[<<"hook", "S3ResponseError">>] = 1
                 /\ f.calls["put"] = socks

\* C15: the calls of upload on two distinct Files are independent under any
\* interleaving: each File's outcome (changed, size, upload attempts, or
\* the error raised) is the one it has alone against the same state of the
\* store, and a step or failure of one File leaves the other File's payload,
\* headers and progress high-water mark as they were.
C15_FilesIndependent ==
  /\ [](/\ OutcomeAsAlone(LocalState, twin.me)
        /\ OutcomeAsAlone(twin.file, 3 - twin.me)
        /\ twin.file.path # path)
  /\ [][/\ twin'.me = twin.me =>
             /\ twin'.file = twin.file
             /\ twin'.file.memoPayload = twin.file.memoPayload
             /\ twin'.file.headers = twin.file.headers
             /\ twin'.file.lastUpload = twin.file.lastUpload
             /\ twin'.store[StoreKey(twin.file.path)]
                  = twin.store[StoreKey(twin.file.path)]
        /\ twin'.me # twin.me =>
             /\ memoPayload' = twin.file.memoPayload
             /\ memoData' = twin.file.memoData
             /\ headers' = twin.file.headers
             /\ lastUpload' = twin.file.lastUpload
             /\ twin'.file.memoPayload = memoPayload
             /\ twin'.file.headers = headers
             /\ twin'.file.lastUpload = lastUpload]_vars

\* the second File's upload has failed for good while the first File was in
\* the middle of its own, its payload computed and a retry under way; the
\* first File goes on
C15_Witness ==
  /\ twin.me = 1
  /\ pc = "put"
  /\ sleeps = <<3>>
  /\ HasPayload(memoPayload)
  /\ twin.file.pc = "raised"
  /\ twin.file.error[1].kind = "socket.error"
  /\ twin.file.lastUpload > 0

\* both Files done after interleaved calls: one uploaded, one unchanged
C15_WitnessBothDone ==
  /\ pc = "done"
  /\ twin.file.pc = "done"
  /\ result[1].changed
  /\ ~twin.file.result[1].changed
  /\ twin.file.sleeps = <<>>
  /\ sleeps # <<>>

====
